---------------------------- MODULE Spec2Model ----------------------------
(***************************************************************************)
(* A model of the knowhere index nodes: FlatIndexNode<T>                   *)
(* (src/src/index/flat/flat.cc) and GpuIvfIndexNode<T>                     *)
(* (src/unnamed/part_000).                                                 *)
(*                                                                         *)
(* Spec     : one FlatIndexNode (T = IndexFlat or IndexBinaryFlat), its    *)
(*            operations, and the per-query tasks that Search and          *)
(*            RangeSearch push to the thread pool.                         *)
(* SpecGpu  : one GpuIvfIndexNode driven by one caller thread, the GPU     *)
(*            resource pool and the ResScope guards.                       *)
(* SpecGpuConc : two callers and two GPU nodes.                            *)
(* SpecPool : two callers running only Train and Deserialize, the          *)
(*            operations that take a resource from the pool.               *)
(***************************************************************************)
EXTENDS Integers, Sequences, FiniteSets, TLC

\* ------------------------------------------------------------------ bounds
MaxNq == 2          \* largest query batch (dataset.GetRows() of a query)
MaxK == 2           \* largest f_cfg.k
MaxLive == 2        \* backend index objects that fit in the free store
NumRes == 1         \* GPU resources GPUResMgr was initialised with
MaxTotal == 2       \* most vectors a GPU index is grown to

\* --------------------------------------------------------------- constants
NULL == 0                    \* nullptr: no backend object / no buffer
defaultRangeFilter == 1000   \* stands for +infinity: no range filter configured
block_size == 2048           \* rows GpuIvfIndexNode::Search hands to the backend at once

\* -------------------------------------------------- numeric backend (faiss)
Vals == {0, 1, 3}

RECURSIVE SumSeq(_)
SumSeq(s) == IF s = <<>> THEN 0 ELSE Head(s) + SumSeq(Tail(s))

RECURSIVE PopCount(_)
PopCount(n) == IF n = 0 THEN 0 ELSE (n % 2) + PopCount(n \div 2)

RECURSIVE XorBits(_, _)
XorBits(a, b) ==
    IF a = 0 /\ b = 0 THEN 0
    ELSE (IF (a % 2) # (b % 2) THEN 1 ELSE 0) + 2 * XorBits(a \div 2, b \div 2)

\* bytes (or floats) occupied by one vector of an index of dimension d
CodeSize(T, d) == IF T = "IndexBinaryFlat" THEN d \div 8 ELSE d

\* the distance the backend computes between a query q and a stored vector v
Distance(metric, q, v) ==
    CASE metric = "L2" -> SumSeq([c \in 1..Len(q) |-> (q[c] - v[c]) * (q[c] - v[c])])
      [] metric = "IP" -> SumSeq([c \in 1..Len(q) |-> q[c] * v[c]])
      [] OTHER -> SumSeq([c \in 1..Len(q) |-> PopCount(XorBits(q[c], v[c]))])

\* higher is closer only for inner product
IsSimilarity(metric) == metric = "IP"

\* stored vector number id (0-based label) of a backend instance
StoredVec(inst, id) ==
    LET cs == CodeSize(inst.T, inst.d)
    IN  SubSeq(inst.xb, id * cs + 1, id * cs + cs)

Candidates(inst, q, bitset) ==
    {[id |-> id, dis |-> Distance(inst.metric_type, q, StoredVec(inst, id))] :
        id \in (0..(inst.ntotal - 1)) \ bitset}

Closer(metric, a, b) ==
    IF a.dis = b.dis THEN a.id <= b.id
    ELSE IF IsSimilarity(metric) THEN a.dis > b.dis ELSE a.dis < b.dis

\* the padding of a row with fewer than k hits: label -1, worst distance
NoHit(metric) == [id |-> -1, dis |-> IF IsSimilarity(metric) THEN -999 ELSE 999]

RECURSIVE TopK(_, _, _)
TopK(metric, cands, k) ==
    IF k = 0 THEN <<>>
    ELSE IF cands = {} THEN <<NoHit(metric)>> \o TopK(metric, {}, k - 1)
    ELSE LET best == CHOOSE a \in cands : \A b \in cands : Closer(metric, a, b)
         IN  <<best>> \o TopK(metric, cands \ {best}, k - 1)

\* index_->search(1, q, k, cur_dis, cur_ids, bitset): the k best hits of one query
BackendSearch(inst, q, k, bitset) == TopK(inst.metric_type, Candidates(inst, q, bitset), k)

\* index_->range_search(1, q, radius, &res, bitset): every hit within the radius
InRadius(metric, dis, radius) ==
    IF IsSimilarity(metric) THEN dis > radius ELSE dis < radius

RECURSIVE ById(_)
ById(hits) ==
    IF hits = {} THEN <<>>
    ELSE LET first == CHOOSE a \in hits : \A b \in hits : a.id <= b.id
         IN  <<first>> \o ById(hits \ {first})

BackendRangeSearch(inst, q, radius, bitset) ==
    ById({c \in Candidates(inst, q, bitset) : InRadius(inst.metric_type, c.dis, radius)})


\* ------------------------------------------------------------------- state
VARIABLES
    T,                  \* the template argument of the flat node
    index_,             \* FlatIndexNode::index_: address of the owned backend object, or NULL
    heap,               \* free store: address -> live backend object
    pc,                 \* where the Search / RangeSearch call in progress stands
    call,               \* parameters of the call in progress
    ids, dis,           \* the output buffers of Search: [st, mem]
    futs,               \* futs: one entry per pushed task
    i, j,               \* the dispatch loop counter and the join loop counter
    wrote,              \* per task: the buffer offsets it has written
    result_id_array,    \* RangeSearch: per-row label vectors
    result_dist_array,  \* RangeSearch: per-row distance vectors
    last,               \* what the last completed call returned
    ub                  \* the undefined behaviour that ended the process, if any

    \* ---- GpuIvfIndexNode instances, their callers and the GPU resources
VARIABLES
    gpu_index_,         \* per node: address of the owned GPU index, or NULL
    res_,               \* per node: the resource the weak pointer res_ refers to, or NULL
    res_bq_,            \* GPUResMgr: the queue of idle resources
    mutex_,             \* per resource: the thread holding Resource::mutex_, or 0
    using,              \* per resource: the threads inside a backend call on its device handle
    th                  \* per caller thread: the operation it runs and where it stands

flatVars == <<T, index_, heap, pc, call, ids, dis, futs, i, j, wrote,
              result_id_array, result_dist_array, last, ub>>

gpuVars == <<gpu_index_, res_, res_bq_, mutex_, using, th>>

vars == <<flatVars, gpuVars>>

\* ------------------------------------------------------------------ inputs
Variants == {"IndexFlat", "IndexBinaryFlat"}

MetricInputs(t) == IF t = "IndexFlat" THEN {"L2", "IP", "bogus"} ELSE {"HAMMING", "bogus"}

\* datasets handed to Build / Add: dim, rows, row-major tensor
DataSets(t) ==
    IF t = "IndexFlat"
    THEN {[dim |-> 1, rows |-> 2, tensor |-> <<0, 3>>],
          [dim |-> 2, rows |-> 3, tensor |-> <<1, 1, 0, 3, 3, 0>>]}
    ELSE {[dim |-> 8, rows |-> 2, tensor |-> <<0, 3>>],
          [dim |-> 8, rows |-> 3, tensor |-> <<1, 3, 0>>]}

QVals == {0, 3}
QueryRows == UNION {[1..n -> QVals] : n \in 0..MaxNq}
Ks == 1..MaxK
Bitsets == {{}, {0}}
Allocs == {"ok", "ids_null", "dis_null"}    \* what new (std::nothrow) gives Search
Radii == {2, 5}
RangeFilters == {defaultRangeFilter, 1}
IdLists == {<<>>, <<0>>, <<1, 0>>, <<7>>}

RECURSIVE Flatten(_)
Flatten(ss) == IF ss = <<>> THEN <<>> ELSE Head(ss) \o Flatten(Tail(ss))

\* the query tensor whose row r is the value qs[r] in every component
QueryTensor(qs, cs) == Flatten([r \in 1..Len(qs) |-> [c \in 1..cs |-> qs[r]]])

\* ----------------------------------------------------------------- helpers
Str2FaissMetricType(name) ==
    IF name \in {"L2", "IP", "HAMMING"}
    THEN [has_value |-> TRUE, value |-> name]
    ELSE [has_value |-> FALSE, error |-> "invalid_metric_type"]

Addrs == 1..MaxLive
FreeAddrs == Addrs \ DOMAIN heap
NewAddr == CHOOSE a \in FreeAddrs : \A b \in FreeAddrs : a <= b

\* heap with the object at address a deleted
Delete(h, a) == [b \in (DOMAIN h) \ {a} |-> h[b]]
\* heap with object o stored at address a
Store(h, a, o) == [b \in (DOMAIN h) \cup {a} |-> IF b = a THEN o ELSE h[b]]

Dim == heap[index_].d
Count == heap[index_].ntotal

NoCall == [op |-> "none"]
NoBuf == [st |-> "none", mem |-> <<>>]
NoLast == [op |-> "none", status |-> "none"]

\* the name Serialize appends the blob under
BlobName == IF T = "IndexFlat" THEN "FLAT" ELSE "BinaryIVF"

\* both variants look the blob up under the name of the float variant
DeserializeName_Flat == "FLAT"

\* the name Deserialize looks the blob up under
DeserializeName == IF T = "IndexFlat" THEN "FLAT" ELSE "BinaryIVF"

\* faiss::write_index / write_index_binary: header, then the stored vectors
WriteIndex(inst) ==
    <<IF inst.T = "IndexFlat" THEN "IxFl" ELSE "IBxF", inst.d, inst.ntotal, inst.metric_type>>
        \o inst.xb

\* faiss::read_index / read_index_binary accepts exactly what write_index produces
Readable(t, blob) ==
    /\ Len(blob) >= 4
    /\ blob[1] = (IF t = "IndexFlat" THEN "IxFl" ELSE "IBxF")
    /\ Len(blob) = 4 + blob[3] * CodeSize(t, blob[2])

ReadIndex(t, blob) ==
    [T |-> t, d |-> blob[2], ntotal |-> blob[3], metric_type |-> blob[4],
     xb |-> SubSeq(blob, 5, Len(blob))]

\* containers a caller may hand to Serialize
EmptyBinSets == {<<>>, [n \in {"other"} |-> <<"junk">>]}

\* containers a caller may hand to Deserialize: the one the last Serialize
\* filled, an empty one, one with a damaged blob, one written elsewhere
BinSets ==
    (IF last.op = "Serialize" THEN {last.binset} ELSE {})
        \cup {<<>>, [n \in {BlobName} |-> <<"junk">>]}
        \cup {[n \in {BlobName} |->
                 WriteIndex([T |-> T, d |-> ds.dim, ntotal |-> ds.rows,
                             metric_type |-> IF T = "IndexFlat" THEN "L2" ELSE "HAMMING",
                             xb |-> ds.tensor])] : ds \in DataSets(T)}

\* ------------------------------------------------- GPU nodes and callers
Nodes == {1, 2}
Threads == {1, 2}

ThreadIdle ==
    [op |-> "none", node |-> 0, pc |-> "idle", status |-> "none", build |-> FALSE,
     gpu_res |-> NULL, gpu_index |-> NULL, acq |-> 0, arg |-> <<>>]

TypeOK ==
    /\ T \in Variants
    /\ index_ \in Addrs \cup {NULL}
    /\ DOMAIN heap \subseteq Addrs
    /\ pc \in {"idle", "dispatch", "join", "returned", "crashed"}

\* a fresh FlatIndexNode<t>, fresh GPU nodes, idle callers, every resource idle
InitOf(t) ==
    /\ T = t
    /\ index_ = NULL
    /\ heap = <<>>
    /\ pc = "idle"
    /\ call = NoCall
    /\ ids = NoBuf
    /\ dis = NoBuf
    /\ futs = <<>>
    /\ i = 0
    /\ j = 0
    /\ wrote = <<>>
    /\ result_id_array = <<>>
    /\ result_dist_array = <<>>
    /\ last = NoLast
    /\ ub = "none"
    /\ gpu_index_ = [n \in Nodes |-> NULL]
    /\ res_ = [n \in Nodes |-> NULL]
    /\ res_bq_ = [r \in 1..NumRes |-> r]
    /\ mutex_ = [r \in 1..NumRes |-> 0]
    /\ using = [r \in 1..NumRes |-> {}]
    /\ th = [u \in Threads |-> ThreadIdle]

Init == \E t \in Variants : InitOf(t)

callVars == <<pc, call, ids, dis, futs, i, j, wrote, result_id_array, result_dist_array, ub>>

\* ------------------------------------------------ FlatIndexNode: Train, Add
Train == "success"

\* an Add that goes on with the instance the node already owns
NewIndex_Reuse(d, metric) ==
    IF index_ # NULL THEN heap[index_]
    ELSE [T |-> T, d |-> d, ntotal |-> 0, metric_type |-> metric, xb |-> <<>>]

\* new (std::nothrow) T(dataset.GetDim(), metric.value()): an instance without rows
NewIndex(d, metric) ==
    [T |-> T, d |-> d, ntotal |-> 0, metric_type |-> metric, xb |-> <<>>]

\* index_->add(n, x): the n rows at x go behind the rows the instance holds
BackendAdd(inst, n, x) == [inst EXCEPT !.ntotal = @ + n, !.xb = @ \o x]

\* the body of Add; op names the public call (Add, or Build through Add)
AddBody(op, dataset, metric_type, allocOk, addThrows) ==
    LET metric == Str2FaissMetricType(metric_type)
        fresh == NewIndex(dataset.dim, metric.value)
        added == BackendAdd(fresh, dataset.rows, dataset.tensor)
        kept  == IF index_ # NULL THEN Delete(heap, index_) ELSE heap
    IN  IF ~metric.has_value
        THEN /\ last' = [op |-> op, status |-> metric.error]
             /\ UNCHANGED <<index_, heap>>
        ELSE IF ~allocOk \/ FreeAddrs = {}
        THEN /\ last' = [op |-> op, status |-> "malloc_error"]
             /\ UNCHANGED <<index_, heap>>
        ELSE /\ index_' = NewAddr
             /\ IF addThrows
                THEN /\ heap' = Store(kept, NewAddr, fresh)
                     /\ last' = [op |-> op, status |-> "exception"]
                ELSE /\ heap' = Store(kept, NewAddr, added)
                     /\ last' = [op |-> op, status |-> "success"]

Add(dataset, metric_type, allocOk, addThrows) ==
    /\ pc = "idle"
    /\ AddBody("Add", dataset, metric_type, allocOk, addThrows)
    /\ UNCHANGED <<T, callVars, gpuVars>>

Build(dataset, metric_type, allocOk, addThrows) ==
    /\ pc = "idle"
    /\ IF Train # "success"
       THEN /\ last' = [op |-> "Build", status |-> Train]
            /\ UNCHANGED <<index_, heap>>
       ELSE AddBody("Build", dataset, metric_type, allocOk, addThrows)
    /\ UNCHANGED <<T, callVars, gpuVars>>

\* ------------------------------------- FlatIndexNode: Serialize, Deserialize
\* BinarySet::Append(name, data, size)
Append_(binset, name, data) ==
    [n \in (DOMAIN binset) \cup {name} |-> IF n = name THEN data ELSE binset[n]]

\* binset is the caller's container; last.binset is the container after the call
Serialize(binset) ==
    /\ pc = "idle"
    /\ IF index_ = NULL
       THEN last' = [op |-> "Serialize", status |-> "empty_index", binset |-> binset]
       ELSE last' = [op |-> "Serialize", status |-> "success",
                     binset |-> Append_(binset, BlobName, WriteIndex(heap[index_]))]
    /\ UNCHANGED <<T, index_, heap, callVars, gpuVars>>

Deserialize(bs) ==
    LET kept == IF index_ # NULL THEN Delete(heap, index_) ELSE heap
        a    == CHOOSE a \in Addrs \ DOMAIN kept : \A b \in Addrs \ DOMAIN kept : a <= b
    IN  /\ pc = "idle"
        /\ IF DeserializeName \notin DOMAIN bs
           THEN \* binary is a null pointer: binary->size
                /\ index_' = NULL
                /\ heap' = kept
                /\ pc' = "crashed"
                /\ ub' = "null_deref"
                /\ last' = [op |-> "Deserialize", status |-> "crashed", binset |-> bs]
           ELSE IF ~Readable(T, bs[DeserializeName])
           THEN \* read_index throws; nothing catches it
                /\ index_' = NULL
                /\ heap' = kept
                /\ last' = [op |-> "Deserialize", status |-> "exception", binset |-> bs]
                /\ UNCHANGED <<pc, ub>>
           ELSE /\ index_' = a
                /\ heap' = Store(kept, a, ReadIndex(T, bs[DeserializeName]))
                /\ last' = [op |-> "Deserialize", status |-> "success", binset |-> bs]
                /\ UNCHANGED <<pc, ub>>
        /\ UNCHANGED <<gpuVars, T, call, ids, dis, futs, i, j, wrote,
                       result_id_array, result_dist_array>>


\* ------------------------------------------------------ thread pool tasks
Queued == {t \in 1..Len(futs) : futs[t] = "queued"}

\* what a task reads at x + off: the n elements there, or, past the end of the
\* caller's tensor, whatever the memory holds
QueryAt(x, off, n) ==
    {v \in [1..n -> Vals] : \A c \in 1..n : off + c <= Len(x) => v[c] = x[off + c]}

\* cur + 0 .. cur + n - 1 of a buffer overwritten with vals
WriteMem(mem, cur, vals) ==
    [o \in (DOMAIN mem) \cup (cur..(cur + Len(vals) - 1)) |->
        IF o >= cur /\ o < cur + Len(vals) THEN vals[o - cur + 1] ELSE mem[o]]

SetFut(t, st) == [futs EXCEPT ![t] = st]

\* ------------------------------------------------- FlatIndexNode::Search
SearchBegin(qs, k, bitset, alloc) ==
    /\ pc = "idle"
    /\ IF index_ = NULL
       THEN /\ last' = [op |-> "Search", status |-> "empty_index"]
            /\ UNCHANGED callVars
       ELSE /\ call' = [op |-> "Search", nq |-> Len(qs), k |-> k, bitset |-> bitset,
                        x |-> QueryTensor(qs, CodeSize(T, Dim))]
            /\ ids' = [st |-> IF alloc = "ids_null" THEN "null" ELSE "live", mem |-> <<>>]
            /\ dis' = [st |-> IF alloc = "dis_null" THEN "null" ELSE "live", mem |-> <<>>]
            /\ futs' = <<>>
            /\ i' = 0
            /\ j' = 0
            /\ wrote' = <<>>
            /\ pc' = IF Len(qs) = 0 THEN "join" ELSE "dispatch"
            /\ last' = [op |-> "Search", status |-> "pending"]
            /\ UNCHANGED <<result_id_array, result_dist_array, ub>>
    /\ UNCHANGED <<T, index_, heap, gpuVars>>

\* one turn of the loop that pushes the lambdas
SearchPush ==
    /\ pc = "dispatch"
    /\ call.op = "Search"
    /\ i < call.nq
    /\ futs' = Append(futs, "queued")
    /\ wrote' = Append(wrote, {})
    /\ i' = i + 1
    /\ pc' = IF i + 1 = call.nq THEN "join" ELSE "dispatch"
    /\ UNCHANGED <<gpuVars, T, index_, heap, call, ids, dis, j,
                   result_id_array, result_dist_array, last, ub>>

\* the slot of a task taken to start at its loop index, whatever k is
SlotBase_Row(k, index) == index

\* first output offset of the task with loop index `index`
SlotBase(k, index) == k * index

\* offset of the query the task with loop index `index` hands to the backend
QueryOffset(index) == index * Dim

\* the distances as they end up in the float buffer
DisCells(hits) ==
    [h \in 1..Len(hits) |->
        [ty |-> IF T = "IndexBinaryFlat" /\ heap[index_].metric_type # "HAMMING"
                THEN "i32" ELSE "f32",
         v |-> hits[h].dis]]

\* the lambda of Search, run by a pool thread while the Search frame is alive
SearchTask(t) ==
    /\ pc \in {"dispatch", "join"}
    /\ call.op = "Search"
    /\ t \in Queued
    /\ \/ \* the backend throws
          /\ futs' = SetFut(t, "failed")
          /\ UNCHANGED <<ids, dis, wrote, pc, ub>>
       \/ \* either buffer is a null pointer: the backend writes through it
          /\ ids.st = "null" \/ dis.st = "null"
          /\ pc' = "crashed"
          /\ ub' = "null_write"
          /\ UNCHANGED <<futs, ids, dis, wrote>>
       \/ /\ ids.st = "live" /\ dis.st = "live"
          /\ \E q \in QueryAt(call.x, QueryOffset(t - 1), CodeSize(T, Dim)) :
                LET hits == BackendSearch(heap[index_], q, call.k, call.bitset)
                    cur  == SlotBase(call.k, t - 1)
                IN  /\ ids' = [ids EXCEPT !.mem =
                                  WriteMem(@, cur, [h \in 1..Len(hits) |-> hits[h].id])]
                    /\ dis' = [dis EXCEPT !.mem = WriteMem(@, cur, DisCells(hits))]
                    /\ wrote' = [wrote EXCEPT ![t] = @ \cup (cur..(cur + call.k - 1))]
          /\ futs' = SetFut(t, "done")
          /\ UNCHANGED <<pc, ub>>
    /\ UNCHANGED <<gpuVars, T, index_, heap, call, i, j,
                   result_id_array, result_dist_array, last>>

\* the catch block without the two auto_delete guards: the buffers stay allocated
Released_Leaked(buf) == buf

\* std::unique_ptr<...[]> auto_delete(buf) going out of scope in the catch
\* block: delete[] of the buffer (of a null pointer: nothing)
Released(buf) == [buf EXCEPT !.st = IF @ = "null" THEN "null" ELSE "freed"]

\* fut.get() on the next future; a failed task rethrows into the catch block
SearchGet ==
    /\ pc = "join"
    /\ call.op = "Search"
    /\ j < call.nq
    /\ futs[j + 1] # "queued"
    /\ IF futs[j + 1] = "done"
       THEN /\ j' = j + 1
            /\ UNCHANGED <<pc, ids, dis, last>>
       ELSE /\ ids' = Released(ids)
            /\ dis' = Released(dis)
            /\ last' = [op |-> "Search", status |-> "faiss_inner_error"]
            /\ pc' = "returned"
            /\ UNCHANGED j
    /\ UNCHANGED <<gpuVars, T, index_, heap, call, futs, i, wrote,
                   result_id_array, result_dist_array, ub>>

\* GenResultDataSet(nq, k, ids, dis): the buffers now belong to the result
SearchReturn ==
    /\ pc = "join"
    /\ call.op = "Search"
    /\ j = call.nq
    /\ last' = [op |-> "Search", status |-> "success", rows |-> call.nq, dim |-> call.k,
                ids |-> ids, dis |-> dis]
    /\ ids' = [ids EXCEPT !.st = IF @ = "null" THEN "null" ELSE "result"]
    /\ dis' = [dis EXCEPT !.st = IF @ = "null" THEN "null" ELSE "result"]
    /\ pc' = "returned"
    /\ UNCHANGED <<gpuVars, T, index_, heap, call, futs, i, j, wrote,
                   result_id_array, result_dist_array, ub>>


\* --------------------------------------------- FlatIndexNode::RangeSearch
\* common/range_util: is dist inside the band selected by is_ip
distance_in_range(dist, radius, range_filter, is_ip) ==
    \/ is_ip /\ radius < dist /\ dist <= range_filter
    \/ ~is_ip /\ range_filter <= dist /\ dist < radius

FilterRangeSearchResultForOneNq(hits, is_ip, radius, range_filter) ==
    SelectSeq(hits, LAMBDA h : distance_in_range(h.dis, radius, range_filter, is_ip))

\* the per-row sizes written as they are, with no leading 0 and no running sum
Lims_Sizes(rows) == [r \in 1..Len(rows) |-> Len(rows[r])]

RECURSIVE Lims(_)
\* lims[0] = 0, lims[r + 1] = lims[r] + size of row r (1-based sequence of nq + 1)
Lims(rows) ==
    IF rows = <<>> THEN <<0>>
    ELSE LET front == Lims(SubSeq(rows, 1, Len(rows) - 1))
         IN  Append(front, front[Len(front)] + Len(rows[Len(rows)]))

GetRangeSearchResult(dists, labels, nq) ==
    [lims |-> Lims(labels), ids |-> Flatten(labels), distances |-> Flatten(dists)]

\* bool is_ip = index_->metric_type == faiss::METRIC_INNER_PRODUCT && T is IndexFlat
is_ip == heap[index_].metric_type = "IP" /\ T = "IndexFlat"

\* the lambda without its filter step: every hit of the backend is kept
RowHits_Unfiltered(inst, q, radius, range_filter, ip, bitset) ==
    BackendRangeSearch(inst, q, radius, bitset)

\* what the lambda leaves in row `index` of the result vectors: the hits of
\* range_search, filtered unless range_filter is the disabled value
RowHits(inst, q, radius, range_filter, ip, bitset) ==
    LET res == BackendRangeSearch(inst, q, radius, bitset)
    IN  IF range_filter # defaultRangeFilter
        THEN FilterRangeSearchResultForOneNq(res, ip, radius, range_filter)
        ELSE res

RangeSearchBegin(qs, radius, range_filter, bitset) ==
    /\ pc = "idle"
    /\ IF index_ = NULL
       THEN /\ last' = [op |-> "RangeSearch", status |-> "empty_index"]
            /\ UNCHANGED callVars
       ELSE /\ call' = [op |-> "RangeSearch", nq |-> Len(qs), bitset |-> bitset,
                        x |-> QueryTensor(qs, CodeSize(T, Dim)),
                        radius |-> radius, range_filter |-> range_filter,
                        is_ip |-> is_ip]
            /\ result_id_array' = [r \in 1..Len(qs) |-> <<>>]
            /\ result_dist_array' = [r \in 1..Len(qs) |-> <<>>]
            /\ futs' = <<>>
            /\ i' = 0
            /\ j' = 0
            /\ wrote' = <<>>
            /\ pc' = IF Len(qs) = 0 THEN "join" ELSE "dispatch"
            /\ last' = [op |-> "RangeSearch", status |-> "pending"]
            /\ UNCHANGED <<ids, dis, ub>>
    /\ UNCHANGED <<T, index_, heap, gpuVars>>

RangeSearchPush ==
    /\ pc = "dispatch"
    /\ call.op = "RangeSearch"
    /\ i < call.nq
    /\ futs' = Append(futs, "queued")
    /\ wrote' = Append(wrote, {})
    /\ i' = i + 1
    /\ pc' = IF i + 1 = call.nq THEN "join" ELSE "dispatch"
    /\ UNCHANGED <<gpuVars, T, index_, heap, call, ids, dis, j,
                   result_id_array, result_dist_array, last, ub>>

\* the lambda of RangeSearch, run while the RangeSearch frame is alive
RangeSearchTask(t) ==
    /\ pc \in {"dispatch", "join"}
    /\ call.op = "RangeSearch"
    /\ t \in Queued
    /\ \/ /\ futs' = SetFut(t, "failed")
          /\ UNCHANGED <<result_id_array, result_dist_array, wrote>>
       \/ /\ \E q \in QueryAt(call.x, QueryOffset(t - 1), CodeSize(T, Dim)) :
                LET kept == RowHits(heap[index_], q, call.radius, call.range_filter,
                                    call.is_ip, call.bitset)
                IN  /\ result_id_array' =
                          [result_id_array EXCEPT ![t] = [h \in 1..Len(kept) |-> kept[h].id]]
                    /\ result_dist_array' =
                          [result_dist_array EXCEPT ![t] = [h \in 1..Len(kept) |-> kept[h].dis]]
          /\ wrote' = [wrote EXCEPT ![t] = @ \cup {t - 1}]
          /\ futs' = SetFut(t, "done")
    /\ UNCHANGED <<gpuVars, T, index_, heap, pc, call, ids, dis, i, j, last, ub>>

RangeSearchGet ==
    /\ pc = "join"
    /\ call.op = "RangeSearch"
    /\ j < call.nq
    /\ futs[j + 1] # "queued"
    /\ IF futs[j + 1] = "done"
       THEN /\ j' = j + 1
            /\ UNCHANGED <<pc, result_id_array, result_dist_array, last>>
       ELSE \* unwinding destroys the per-row vectors
            /\ result_id_array' = <<>>
            /\ result_dist_array' = <<>>
            /\ last' = [op |-> "RangeSearch", status |-> "faiss_inner_error"]
            /\ pc' = "returned"
            /\ UNCHANGED j
    /\ UNCHANGED <<gpuVars, T, index_, heap, call, ids, dis, futs, i, wrote, ub>>

\* the merge does not wait for the join loop
AllJoined_Early == TRUE

\* the loop over futs (fut.get() on every future) has run to its end
AllJoined == j = call.nq

\* GetRangeSearchResult(...); return GenResultDataSet(nq, ids, distances, lims)
RangeSearchReturn ==
    /\ pc = "join"
    /\ call.op = "RangeSearch"
    /\ AllJoined
    /\ LET r == GetRangeSearchResult(result_dist_array, result_id_array, call.nq)
       IN  last' = [op |-> "RangeSearch", status |-> "success", rows |-> call.nq,
                    ids |-> r.ids, distances |-> r.distances, lims |-> r.lims]
    /\ result_id_array' = <<>>
    /\ result_dist_array' = <<>>
    /\ pc' = "returned"
    /\ UNCHANGED <<gpuVars, T, index_, heap, call, ids, dis, futs, i, j, wrote, ub>>

\* ------------------------------------------- after the call has returned
\* a task still in the pool runs its lambda: every reference it captured
\* (ids, dis, f_cfg, x, bitset, the result vectors) dangles
LateTask(t) ==
    /\ pc = "returned"
    /\ t \in Queued
    /\ \/ /\ pc' = "crashed"
          /\ ub' = "use_after_return"
          /\ UNCHANGED futs
       \/ /\ \E st \in {"done", "failed"} : futs' = SetFut(t, st)
          /\ UNCHANGED <<pc, ub>>
    /\ UNCHANGED <<gpuVars, T, index_, heap, call, ids, dis, i, j, wrote,
                   result_id_array, result_dist_array, last>>

\* the caller is done with the call and nothing of it is left in the pool
Retire ==
    /\ pc = "returned"
    /\ Queued = {}
    /\ pc' = "idle"
    /\ call' = NoCall
    /\ ids' = NoBuf
    /\ dis' = NoBuf
    /\ futs' = <<>>
    /\ i' = 0
    /\ j' = 0
    /\ wrote' = <<>>
    /\ UNCHANGED <<gpuVars, T, index_, heap, result_id_array, result_dist_array, last, ub>>

\* ------------------------------------------ FlatIndexNode::GetVectorByIds
GetVectorByIds(in_ids, okAlloc) ==
    /\ pc = "idle"
    /\ IF Len(in_ids) = 0
       THEN /\ last' = [op |-> "GetVectorByIds", status |-> "success", tensor |-> <<>>]
            /\ UNCHANGED <<pc, ub>>
       ELSE IF index_ = NULL
       THEN \* index_->reconstruct on a null pointer
            /\ pc' = "crashed"
            /\ ub' = "null_deref"
            /\ last' = [op |-> "GetVectorByIds", status |-> "crashed"]
       ELSE IF in_ids[1] \notin 0..(Count - 1)
       THEN /\ last' = [op |-> "GetVectorByIds", status |-> "faiss_inner_error"]
            /\ UNCHANGED <<pc, ub>>
       ELSE IF ~okAlloc
       THEN \* reconstruct writes through the null xq
            /\ pc' = "crashed"
            /\ ub' = "null_write"
            /\ last' = [op |-> "GetVectorByIds", status |-> "crashed"]
       ELSE IF \E n \in 1..Len(in_ids) : in_ids[n] \notin 0..(Count - 1)
       THEN /\ last' = [op |-> "GetVectorByIds", status |-> "faiss_inner_error"]
            /\ UNCHANGED <<pc, ub>>
       ELSE /\ last' = [op |-> "GetVectorByIds", status |-> "success",
                        tensor |-> Flatten([n \in 1..Len(in_ids) |->
                                               StoredVec(heap[index_], in_ids[n])])]
            /\ UNCHANGED <<pc, ub>>
    /\ UNCHANGED <<gpuVars, T, index_, heap, call, ids, dis, futs, i, j, wrote,
                   result_id_array, result_dist_array>>

\* ------------------------------------------------------------------ Spec
Next ==
    \/ \E ds \in DataSets(T), m \in MetricInputs(T), okA \in BOOLEAN, thr \in BOOLEAN :
          Add(ds, m, okA, thr)
    \/ \E ds \in DataSets(T), m \in MetricInputs(T), okA \in BOOLEAN, thr \in BOOLEAN :
          Build(ds, m, okA, thr)
    \/ \E bs \in EmptyBinSets : Serialize(bs)
    \/ \E bs \in BinSets : Deserialize(bs)
    \/ \E qs \in QueryRows, k \in Ks, b \in Bitsets, al \in Allocs :
          SearchBegin(qs, k, b, al)
    \/ SearchPush
    \/ \E t \in 1..MaxNq + 1 : SearchTask(t)
    \/ SearchGet
    \/ SearchReturn
    \/ \E qs \in QueryRows, r \in Radii, f \in RangeFilters, b \in Bitsets :
          RangeSearchBegin(qs, r, f, b)
    \/ RangeSearchPush
    \/ \E t \in 1..MaxNq + 1 : RangeSearchTask(t)
    \/ RangeSearchGet
    \/ RangeSearchReturn
    \/ \E t \in 1..MaxNq + 1 : LateTask(t)
    \/ Retire
    \/ \E l \in IdLists, okA \in BOOLEAN : GetVectorByIds(l, okA)

Spec == Init /\ [][Next]_vars

\* ======================================================= GpuIvfIndexNode
\* datasets handed to the GPU Train / Add / Build (dimension 1)
GpuDataSets == {[rows |-> 1, tensor |-> <<1>>], [rows |-> 2, tensor |-> <<0, 3>>]}
GpuMetricInputs == {"L2", "bogus"}

Running(t) == th[t].pc \notin {"idle", "done"}
Mutators == {"Train", "Add", "Build", "Deserialize"}

\* section 5's calling discipline: one writer at a time per instance, and no
\* reader while it runs
CanMutate(n) == \A u \in Threads : Running(u) => th[u].node # n
CanRead(n) == \A u \in Threads : Running(u) /\ th[u].node = n => th[u].op \notin Mutators

Alive == ub = "none"

SetTh(t, rec) == [th EXCEPT ![t] = rec]

\* the thread record of a call that starts
Started(op, n) == [ThreadIdle EXCEPT !.op = op, !.node = n, !.pc = "start"]

\* the record of a call that has returned status s
Returned(rec, s) == [rec EXCEPT !.pc = "done", !.status = s]

\* GPUResMgr::GetRes(): take the first idle resource (blocks while none is idle)
CanGetRes == Len(res_bq_) > 0
GetRes == Head(res_bq_)

\* the resource handed out stays in the queue of idle resources
QueueAfterGetRes_Kept == res_bq_

\* the queue once GetRes has taken its first element
QueueAfterGetRes == Tail(res_bq_)

\* ResScope(res, renew): lock the resource's mutex for the scope
CanEnterScope(r) == mutex_[r] = 0
EnterScope(r, t) == [mutex_ EXCEPT ![r] = t]
\* ~ResScope(): with renew the resource goes back to the queue; unlock
LeaveScopeQueue(r, renew) == IF renew THEN Append(res_bq_, r) ELSE res_bq_
LeaveScopeMutex(r) == [mutex_ EXCEPT ![r] = 0]

\* the release written by hand at the end of the block: an exception skips it
ScopeLeft_Manual(r, renew, threw) ==
    IF threw
    THEN [mutex |-> mutex_, queue |-> res_bq_]
    ELSE [mutex |-> LeaveScopeMutex(r), queue |-> LeaveScopeQueue(r, renew)]

\* control leaves the block that declares `ResScope rs(r, renew)`, by reaching
\* its end or by an exception (threw): rs is destroyed either way
ScopeLeft(r, renew, threw) ==
    [mutex |-> LeaveScopeMutex(r), queue |-> LeaveScopeQueue(r, renew)]

\* a backend call that touches the device handle of r starts / ends on thread t
UseBegin(r, t) == [using EXCEPT ![r] = @ \cup {t}]
UseEnd(r, t) == [using EXCEPT ![r] = @ \ {t}]

flatState == <<T, index_, pc, call, ids, dis, futs, i, j, wrote,
               result_id_array, result_dist_array, last>>

\* ---------------------------------------------------------------- Train
\* Build that calls Add whatever Train returned
AfterTrain_Always(rec, s) ==
    IF rec.build THEN [rec EXCEPT !.pc = "add_start"] ELSE Returned(rec, s)

\* what the caller of Train gets: Build goes on to Add, Train returns
AfterTrain(rec, s) ==
    IF rec.build /\ s = "success" THEN [rec EXCEPT !.pc = "add_start"] ELSE Returned(rec, s)

\* Train without the test of is_trained: a trained node is trained again
TrainChecks_Retrain(t, rec, n, metric_type) ==
    LET metric == Str2FaissMetricType(metric_type)
    IN  IF ~metric.has_value
        THEN th' = SetTh(t, AfterTrain(rec, metric.error))
        ELSE th' = SetTh(t, [rec EXCEPT !.pc = "train_getres"])

\* the checks of Train before it asks for a resource
TrainChecks(t, rec, n, metric_type) ==
    LET metric == Str2FaissMetricType(metric_type)
    IN  IF gpu_index_[n] # NULL /\ heap[gpu_index_[n]].is_trained
        THEN th' = SetTh(t, AfterTrain(rec, "index_already_trained"))
        ELSE IF ~metric.has_value
        THEN th' = SetTh(t, AfterTrain(rec, metric.error))
        ELSE th' = SetTh(t, [rec EXCEPT !.pc = "train_getres"])

GpuTrain(t, n, dataset, metric_type) ==
    /\ Alive /\ th[t].pc = "idle" /\ CanMutate(n)
    /\ TrainChecks(t, [Started("Train", n) EXCEPT !.arg = dataset], n, metric_type)
    /\ UNCHANGED <<flatState, heap, ub, gpu_index_, res_, res_bq_, mutex_, using>>

GpuBuild(t, n, dataset, metric_type) ==
    /\ Alive /\ th[t].pc = "idle" /\ CanMutate(n)
    /\ TrainChecks(t, [Started("Build", n) EXCEPT !.arg = dataset, !.build = TRUE],
                   n, metric_type)
    /\ UNCHANGED <<flatState, heap, ub, gpu_index_, res_, res_bq_, mutex_, using>>

\* auto gpu_res = GPUResMgr::GetInstance().GetRes();
TrainGetRes(t) ==
    /\ Alive /\ th[t].pc = "train_getres"
    /\ CanGetRes
    /\ th' = SetTh(t, [th[t] EXCEPT !.pc = "train_scope", !.gpu_res = GetRes,
                                    !.acq = @ + 1])
    /\ res_bq_' = QueueAfterGetRes
    /\ UNCHANGED <<flatState, heap, ub, gpu_index_, res_, mutex_, using>>

\* ResScope rs(gpu_res, true); the constructor of the GPU index starts
TrainScope(t) ==
    LET r == th[t].gpu_res
    IN  /\ Alive /\ th[t].pc = "train_scope"
        /\ CanEnterScope(r)
        /\ mutex_' = EnterScope(r, t)
        /\ using' = UseBegin(r, t)
        /\ th' = SetTh(t, [th[t] EXCEPT !.pc = "train_backend"])
        /\ UNCHANGED <<flatState, heap, ub, gpu_index_, res_, res_bq_>>

\* gpu_index_ = <new object> without a delete: the object at the old address
\* stays allocated and nothing refers to it any more, so nothing can read what
\* it holds; the model keeps the allocation and forgets the content
Unreachable == [is_trained |-> FALSE, xb |-> <<>>, nprobe |-> 0, res |-> NULL]
Overwritten(h, old) == IF old = NULL THEN h ELSE [h EXCEPT ![old] = Unreachable]

\* the new GPU index of a Train that succeeded
TrainedIndex(r) == [is_trained |-> TRUE, xb |-> <<>>, nprobe |-> 1, res |-> r]

\* new GpuIndexIVF...(...) and gpu_index->train(...) end; the scope is left;
\* then the catch block or the assignment to gpu_index_
TrainBackend(t) ==
    LET r == th[t].gpu_res
        n == th[t].node
    IN  /\ Alive /\ th[t].pc = "train_backend"
        /\ \/ \* train succeeded
              /\ FreeAddrs # {}
              /\ mutex_' = ScopeLeft(r, TRUE, FALSE).mutex
              /\ res_bq_' = ScopeLeft(r, TRUE, FALSE).queue
              /\ heap' = Store(Overwritten(heap, gpu_index_[n]), NewAddr, TrainedIndex(r))
              /\ res_' = [res_ EXCEPT ![n] = r]
              /\ gpu_index_' = [gpu_index_ EXCEPT ![n] = NewAddr]
              /\ using' = UseEnd(r, t)
              /\ th' = SetTh(t, AfterTrain([th[t] EXCEPT !.gpu_index = NewAddr], "success"))
           \/ \* the constructor threw: gpu_index is still a null pointer
              /\ mutex_' = ScopeLeft(r, TRUE, TRUE).mutex
              /\ res_bq_' = ScopeLeft(r, TRUE, TRUE).queue
              /\ using' = UseEnd(r, t)
              /\ th' = SetTh(t, AfterTrain(th[t], "faiss_inner_error"))
              /\ UNCHANGED <<heap, res_, gpu_index_>>
           \/ \* train threw: the scope is left, then the catch block starts to
              \* delete the index that was built
              /\ FreeAddrs # {}
              /\ mutex_' = ScopeLeft(r, TRUE, TRUE).mutex
              /\ res_bq_' = ScopeLeft(r, TRUE, TRUE).queue
              /\ heap' = Store(heap, NewAddr, [TrainedIndex(r) EXCEPT !.is_trained = FALSE])
              /\ th' = SetTh(t, [th[t] EXCEPT !.pc = "train_catch", !.gpu_index = NewAddr])
              /\ UNCHANGED <<using, res_, gpu_index_>>
        /\ UNCHANGED <<flatState, ub>>

\* delete gpu_index; return Status::faiss_inner_error;
TrainCatch(t) ==
    /\ Alive /\ th[t].pc = "train_catch"
    /\ heap' = Delete(heap, th[t].gpu_index)
    /\ using' = UseEnd(th[t].gpu_res, t)
    /\ th' = SetTh(t, AfterTrain([th[t] EXCEPT !.gpu_index = NULL], "faiss_inner_error"))
    /\ UNCHANGED <<flatState, ub, gpu_index_, res_, res_bq_, mutex_>>

\* the caller has its status
Finish(t) ==
    /\ Alive /\ th[t].pc = "done"
    /\ th' = SetTh(t, ThreadIdle)
    /\ UNCHANGED <<flatState, heap, ub, gpu_index_, res_, res_bq_, mutex_, using>>

\* ------------------------------------------------------------------ Add
\* Add without the test of is_trained: rows go into an untrained index
AddChecks_Untested(t, rec, n) ==
    IF gpu_index_[n] = NULL
    THEN th' = SetTh(t, Returned(rec, "empty_index"))
    ELSE th' = SetTh(t, [rec EXCEPT !.pc = "add_scope"])

\* the checks of Add before it enters the scope of its resource
AddChecks(t, rec, n) ==
    IF gpu_index_[n] = NULL
    THEN th' = SetTh(t, Returned(rec, "empty_index"))
    ELSE IF ~heap[gpu_index_[n]].is_trained
    THEN th' = SetTh(t, Returned(rec, "index_not_trained"))
    ELSE th' = SetTh(t, [rec EXCEPT !.pc = "add_scope"])

\* room left in the index for the rows of the dataset
Fits(n, dataset) ==
    gpu_index_[n] # NULL => Len(heap[gpu_index_[n]].xb) + dataset.rows <= MaxTotal

GpuAdd(t, n, dataset) ==
    /\ Alive /\ th[t].pc = "idle" /\ CanMutate(n)
    /\ Fits(n, dataset)
    /\ AddChecks(t, [Started("Add", n) EXCEPT !.arg = dataset], n)
    /\ UNCHANGED <<flatState, heap, ub, gpu_index_, res_, res_bq_, mutex_, using>>

\* Build: return Add(dataset, cfg);
BuildAdd(t) ==
    /\ Alive /\ th[t].pc = "add_start"
    /\ AddChecks(t, th[t], th[t].node)
    /\ UNCHANGED <<flatState, heap, ub, gpu_index_, res_, res_bq_, mutex_, using>>

\* ResScope rs(res_, false); gpu_index_->add(...) starts
AddScope(t) ==
    LET r == res_[th[t].node]
    IN  /\ Alive /\ th[t].pc = "add_scope"
        /\ CanEnterScope(r)
        /\ mutex_' = EnterScope(r, t)
        /\ using' = UseBegin(r, t)
        /\ th' = SetTh(t, [th[t] EXCEPT !.pc = "add_backend", !.gpu_res = r, !.acq = @ + 1])
        /\ UNCHANGED <<flatState, heap, ub, gpu_index_, res_, res_bq_>>

\* gpu_index_->add(...) ends: all rows added, or it threw after `part` of them
AddBackend(t) ==
    LET r == th[t].gpu_res
        a == gpu_index_[th[t].node]
        x == th[t].arg
    IN  /\ Alive /\ th[t].pc = "add_backend"
        /\ using' = UseEnd(r, t)
        /\ \/ /\ heap' = [heap EXCEPT ![a].xb = @ \o x.tensor]
              /\ mutex_' = ScopeLeft(r, FALSE, FALSE).mutex
              /\ res_bq_' = ScopeLeft(r, FALSE, FALSE).queue
              /\ th' = SetTh(t, Returned(th[t], "success"))
           \/ \E part \in 0..(x.rows - 1) :
                 /\ heap' = [heap EXCEPT ![a].xb = @ \o SubSeq(x.tensor, 1, part)]
                 /\ mutex_' = ScopeLeft(r, FALSE, TRUE).mutex
                 /\ res_bq_' = ScopeLeft(r, FALSE, TRUE).queue
                 /\ th' = SetTh(t, Returned(th[t], "faiss_inner_error"))
        /\ UNCHANGED <<flatState, ub, gpu_index_, res_>>

\* ---------------------------------------------------------- Deserialize
\* faiss::write_index of the host copy of a GPU index
GpuWriteIndex(obj) == <<"IwFl", obj.is_trained, Len(obj.xb)>> \o obj.xb

GpuReadable(blob) ==
    /\ Len(blob) >= 3
    /\ blob[1] = "IwFl"
    /\ Len(blob) = 3 + blob[3]

\* binary sets a caller may hand to the GPU Deserialize
GpuBinSets ==
    {<<>>, [n \in {"IVF"} |-> <<"junk">>]}
        \cup {[n \in {"IVF"} |-> GpuWriteIndex([is_trained |-> tr, xb |-> x])] :
                 tr \in BOOLEAN, x \in {<<>>, <<0, 3>>}}

GpuDeserialize(t, n, bs) ==
    /\ Alive /\ th[t].pc = "idle" /\ CanMutate(n)
    /\ IF "IVF" \notin DOMAIN bs
       THEN \* binary is a null pointer: binary->size
            /\ ub' = "null_deref"
            /\ th' = SetTh(t, [Started("Deserialize", n) EXCEPT !.pc = "crashed"])
       ELSE IF ~GpuReadable(bs["IVF"])
       THEN \* read_index throws inside the try block
            /\ th' = SetTh(t, Returned(Started("Deserialize", n), "faiss_inner_error"))
            /\ UNCHANGED ub
       ELSE /\ th' = SetTh(t, [Started("Deserialize", n) EXCEPT
                                  !.pc = "deser_getres", !.arg = bs["IVF"]])
            /\ UNCHANGED ub
    /\ UNCHANGED <<flatState, heap, gpu_index_, res_, res_bq_, mutex_, using>>

DeserializeGetRes(t) ==
    /\ Alive /\ th[t].pc = "deser_getres"
    /\ CanGetRes
    /\ th' = SetTh(t, [th[t] EXCEPT !.pc = "deser_scope", !.gpu_res = GetRes,
                                    !.acq = @ + 1])
    /\ res_bq_' = QueueAfterGetRes
    /\ UNCHANGED <<flatState, heap, ub, gpu_index_, res_, mutex_, using>>

\* ResScope rs(gpu_res, true); index_cpu_to_gpu starts
DeserializeScope(t) ==
    LET r == th[t].gpu_res
    IN  /\ Alive /\ th[t].pc = "deser_scope"
        /\ CanEnterScope(r)
        /\ mutex_' = EnterScope(r, t)
        /\ using' = UseBegin(r, t)
        /\ th' = SetTh(t, [th[t] EXCEPT !.pc = "deser_backend"])
        /\ UNCHANGED <<flatState, heap, ub, gpu_index_, res_, res_bq_>>

\* index_cpu_to_gpu ends; gpu_index_ and res_ are assigned; the scope is left
DeserializeBackend(t) ==
    LET r == th[t].gpu_res
        n == th[t].node
        blob == th[t].arg
    IN  /\ Alive /\ th[t].pc = "deser_backend"
        /\ using' = UseEnd(r, t)
        /\ \/ /\ FreeAddrs # {}
              /\ mutex_' = ScopeLeft(r, TRUE, FALSE).mutex
              /\ res_bq_' = ScopeLeft(r, TRUE, FALSE).queue
              /\ heap' = Store(Overwritten(heap, gpu_index_[n]), NewAddr,
                               [is_trained |-> blob[2], xb |-> SubSeq(blob, 4, Len(blob)),
                                nprobe |-> 1, res |-> r])
              /\ gpu_index_' = [gpu_index_ EXCEPT ![n] = NewAddr]
              /\ res_' = [res_ EXCEPT ![n] = r]
              /\ th' = SetTh(t, Returned(th[t], "success"))
           \/ /\ mutex_' = ScopeLeft(r, TRUE, TRUE).mutex
              /\ res_bq_' = ScopeLeft(r, TRUE, TRUE).queue
              /\ th' = SetTh(t, Returned(th[t], "faiss_inner_error"))
              /\ UNCHANGED <<heap, gpu_index_, res_>>
        /\ UNCHANGED <<flatState, ub>>

\* --------------------------------------------------------------- Search
GpuRows == {0, 1, 2049}
GpuKs == {2}
NProbes == {1, 2}

\* setNumProbes(nprobe) on the index, if there is one
GpuSearch(t, n, rows, k, nprobe, alloc) ==
    /\ Alive /\ th[t].pc = "idle" /\ CanRead(n)
    /\ heap' = IF gpu_index_[n] # NULL
               THEN [heap EXCEPT ![gpu_index_[n]].nprobe = nprobe]
               ELSE heap
    /\ th' = SetTh(t, [Started("Search", n) EXCEPT !.pc = "search_scope",
                          !.arg = [rows |-> rows, k |-> k, nprobe |-> nprobe, i |-> 0,
                                   alloc |-> alloc, out |-> <<>>, used |-> {}]])
    /\ UNCHANGED <<flatState, ub, gpu_index_, res_, res_bq_, mutex_, using>>

\* ResScope rs(res_, false); then the two buffers are allocated
GpuSearchScope(t) ==
    LET r == res_[th[t].node]
    IN  /\ Alive /\ th[t].pc = "search_scope"
        /\ \/ \* res_ refers to nothing: res_.lock() is null, res_->mutex_
              /\ r = NULL
              /\ ub' = "null_deref"
              /\ th' = SetTh(t, [th[t] EXCEPT !.pc = "crashed"])
              /\ UNCHANGED mutex_
           \/ /\ r # NULL
              /\ CanEnterScope(r)
              /\ mutex_' = EnterScope(r, t)
              /\ th' = SetTh(t, [th[t] EXCEPT !.pc = "search_loop", !.gpu_res = r,
                                              !.acq = @ + 1])
              /\ UNCHANGED ub
        /\ UNCHANGED <<flatState, heap, gpu_index_, res_, res_bq_, using>>

\* every block taken to be a full one
SearchSize_Full(rows, i0) == block_size

\* rows of the block that starts at row i
SearchSize(rows, i0) == IF rows - i0 > block_size THEN block_size ELSE rows - i0

\* one call gpu_index_->search(size, tensor + i0 * dim, k, dis + i0 * k, ids + i0 * k):
\* the query rows it reads and the output entries [lo, hi) it writes
Block(i0, size, k) == [row |-> i0, size |-> size, lo |-> i0 * k, hi |-> (i0 + size) * k]

\* the loop test holds: gpu_index_->search(search_size, ...) starts
GpuSearchBlock(t) ==
    LET x == th[t].arg
    IN  /\ Alive /\ th[t].pc = "search_loop"
        /\ x.i < x.rows
        /\ \/ \* a buffer is a null pointer: the backend writes through it
              /\ x.alloc # "ok"
              /\ ub' = "null_write"
              /\ th' = SetTh(t, [th[t] EXCEPT !.pc = "crashed"])
              /\ UNCHANGED using
           \/ /\ x.alloc = "ok"
              /\ using' = UseBegin(th[t].gpu_res, t)
              /\ th' = SetTh(t, [th[t] EXCEPT !.pc = "search_backend"])
              /\ UNCHANGED ub
        /\ UNCHANGED <<flatState, heap, gpu_index_, res_, res_bq_, mutex_>>

\* gpu_index_->search ends: the block is written, or it threw
GpuSearchBackend(t) ==
    LET x == th[t].arg
        r == th[t].gpu_res
        size == SearchSize(x.rows, x.i)
    IN  /\ Alive /\ th[t].pc = "search_backend"
        /\ using' = UseEnd(r, t)
        /\ \/ /\ th' = SetTh(t, [th[t] EXCEPT !.pc = "search_loop",
                    !.arg = [x EXCEPT !.i = @ + block_size,
                                      !.out = Append(@, Block(x.i, size, x.k)),
                                      !.used = @ \cup {heap[gpu_index_[th[t].node]].nprobe}]])
              /\ UNCHANGED <<mutex_, res_bq_>>
           \/ /\ mutex_' = ScopeLeft(r, FALSE, TRUE).mutex
              /\ res_bq_' = ScopeLeft(r, FALSE, TRUE).queue
              /\ th' = SetTh(t, Returned(th[t], "faiss_inner_error"))
        /\ UNCHANGED <<flatState, heap, ub, gpu_index_, res_>>

\* return GenResultDataSet(rows, k, ids, dis);
GpuSearchReturn(t) ==
    LET x == th[t].arg
        r == th[t].gpu_res
    IN  /\ Alive /\ th[t].pc = "search_loop"
        /\ x.i >= x.rows
        /\ mutex_' = ScopeLeft(r, FALSE, FALSE).mutex
        /\ res_bq_' = ScopeLeft(r, FALSE, FALSE).queue
        /\ th' = SetTh(t, Returned(th[t], "success"))
        /\ UNCHANGED <<flatState, heap, ub, gpu_index_, res_, using>>

\* ------------------------------------------------------------ Serialize
\* Serialize without the test of is_trained
SerializeChecks_Untested(n) ==
    IF gpu_index_[n] = NULL THEN "empty_index" ELSE "success"

\* the two tests Serialize makes before it copies the index: the status it
\* returns at once, or success when it goes on
SerializeChecks(n) ==
    IF gpu_index_[n] = NULL THEN "empty_index"
    ELSE IF ~heap[gpu_index_[n]].is_trained THEN "index_not_trained"
    ELSE "success"

GpuSerialize(t, n, binset) ==
    LET rec == [Started("Serialize", n) EXCEPT !.arg = binset]
    IN  /\ Alive /\ th[t].pc = "idle" /\ CanRead(n)
        /\ IF SerializeChecks(n) # "success"
           THEN /\ th' = SetTh(t, Returned(rec, SerializeChecks(n)))
                /\ UNCHANGED using
           ELSE \* index_gpu_to_cpu(gpu_index_) starts
                /\ th' = SetTh(t, [rec EXCEPT !.pc = "ser_backend",
                                              !.gpu_res = heap[gpu_index_[n]].res])
                /\ using' = UseBegin(heap[gpu_index_[n]].res, t)
        /\ UNCHANGED <<flatState, heap, ub, gpu_index_, res_, res_bq_, mutex_>>

\* the host copy is written and appended under the name IVF, or something threw
GpuSerializeBackend(t) ==
    /\ Alive /\ th[t].pc = "ser_backend"
    /\ using' = UseEnd(th[t].gpu_res, t)
    /\ \/ th' = SetTh(t, Returned([th[t] EXCEPT !.arg =
                    Append_(@, "IVF", GpuWriteIndex(heap[gpu_index_[th[t].node]]))],
                    "success"))
       \/ th' = SetTh(t, Returned(th[t], "faiss_inner_error"))
    /\ UNCHANGED <<flatState, heap, ub, gpu_index_, res_, res_bq_, mutex_>>

\* the three operations answered from the index the node owns
GpuNotImplemented_Answering(t, n, op) ==
    /\ Alive /\ th[t].pc = "idle" /\ CanRead(n)
    /\ th' = SetTh(t, Returned(Started(op, n),
                               IF gpu_index_[n] = NULL THEN "empty_index" ELSE "success"))
    /\ UNCHANGED <<flatState, heap, ub, gpu_index_, res_, res_bq_, mutex_, using>>

\* ----------------------------- RangeSearch, GetVectorByIds, GetIndexMeta
GpuNotImplemented(t, n, op) ==
    /\ Alive /\ th[t].pc = "idle" /\ CanRead(n)
    /\ th' = SetTh(t, Returned(Started(op, n), "not_implemented"))
    /\ UNCHANGED <<flatState, heap, ub, gpu_index_, res_, res_bq_, mutex_, using>>

\* ------------------------------------------------------------- SpecGpu
\* one caller thread drives one node through every operation
SeqNext ==
    \/ \E ds \in GpuDataSets, m \in GpuMetricInputs : GpuTrain(1, 1, ds, m)
    \/ \E ds \in GpuDataSets, m \in GpuMetricInputs : GpuBuild(1, 1, ds, m)
    \/ TrainGetRes(1)
    \/ TrainScope(1)
    \/ TrainBackend(1)
    \/ TrainCatch(1)
    \/ \E ds \in GpuDataSets : GpuAdd(1, 1, ds)
    \/ BuildAdd(1)
    \/ AddScope(1)
    \/ AddBackend(1)
    \/ \E bs \in GpuBinSets : GpuDeserialize(1, 1, bs)
    \/ DeserializeGetRes(1)
    \/ DeserializeScope(1)
    \/ DeserializeBackend(1)
    \/ \E rows \in GpuRows, k \in GpuKs, np \in NProbes, al \in Allocs :
          GpuSearch(1, 1, rows, k, np, al)
    \/ GpuSearchScope(1)
    \/ GpuSearchBlock(1)
    \/ GpuSearchBackend(1)
    \/ GpuSearchReturn(1)
    \/ \E bs \in EmptyBinSets : GpuSerialize(1, 1, bs)
    \/ GpuSerializeBackend(1)
    \/ \E op \in {"RangeSearch", "GetVectorByIds", "GetIndexMeta"} :
          GpuNotImplemented(1, 1, op)
    \/ Finish(1)

InitGpu == InitOf("IndexFlat")

SpecGpu == InitGpu /\ [][SeqNext]_vars

\* ---------------------------------------------------------- SpecGpuConc
\* two caller threads, two nodes, one small input of each kind
ConcDataSet == [rows |-> 1, tensor |-> <<1>>]
ConcBinSet == [n \in {"IVF"} |-> GpuWriteIndex([is_trained |-> TRUE, xb |-> <<>>])]

ConcNext ==
    \/ \E t \in Threads, n \in Nodes : GpuTrain(t, n, ConcDataSet, "L2")
    \/ \E t \in Threads : TrainGetRes(t)
    \/ \E t \in Threads : TrainScope(t)
    \/ \E t \in Threads : TrainBackend(t)
    \/ \E t \in Threads : TrainCatch(t)
    \/ \E t \in Threads, n \in Nodes : GpuAdd(t, n, ConcDataSet)
    \/ \E t \in Threads : AddScope(t)
    \/ \E t \in Threads : AddBackend(t)
    \/ \E t \in Threads, n \in Nodes : GpuDeserialize(t, n, ConcBinSet)
    \/ \E t \in Threads : DeserializeGetRes(t)
    \/ \E t \in Threads : DeserializeScope(t)
    \/ \E t \in Threads : DeserializeBackend(t)
    \/ \E t \in Threads, n \in Nodes, np \in NProbes : GpuSearch(t, n, 1, 1, np, "ok")
    \/ \E t \in Threads : GpuSearchScope(t)
    \/ \E t \in Threads : GpuSearchBlock(t)
    \/ \E t \in Threads : GpuSearchBackend(t)
    \/ \E t \in Threads : GpuSearchReturn(t)
    \/ \E t \in Threads, n \in Nodes : GpuSerialize(t, n, <<>>)
    \/ \E t \in Threads : GpuSerializeBackend(t)
    \/ \E t \in Threads : Finish(t)

SpecGpuConc == InitGpu /\ [][ConcNext]_vars

\* ------------------------------------------------------------- SpecPool
\* two caller threads and two nodes running only the operations that take a
\* resource from GPUResMgr: Train and Deserialize
PoolNext ==
    \/ \E t \in Threads, n \in Nodes : GpuTrain(t, n, ConcDataSet, "L2")
    \/ \E t \in Threads : TrainGetRes(t)
    \/ \E t \in Threads : TrainScope(t)
    \/ \E t \in Threads : TrainBackend(t)
    \/ \E t \in Threads : TrainCatch(t)
    \/ \E t \in Threads, n \in Nodes : GpuDeserialize(t, n, ConcBinSet)
    \/ \E t \in Threads : DeserializeGetRes(t)
    \/ \E t \in Threads : DeserializeScope(t)
    \/ \E t \in Threads : DeserializeBackend(t)
    \/ \E t \in Threads : Finish(t)

SpecPool == InitGpu /\ [][PoolNext]_vars


\* ================================================================ claims
\* ------------------------------------------------------------------- C1
\* C1: Search and RangeSearch wait for every task they pushed before they
\* return, on the failure path too: once the operation has returned, or has
\* freed its output buffers, no task of that call is still waiting to run.
C1_TasksDrainedBeforeReturn ==
    (pc = "returned" \/ ids.st = "freed" \/ dis.st = "freed") => Queued = {}

\* ------------------------------------------------------------------- C2
\* the query row i of the caller's tensor (0-based), CodeSize elements wide
QueryRow(index) ==
    SubSeq(call.x, index * CodeSize(T, Dim) + 1, (index + 1) * CodeSize(T, Dim))

C2_OneTaskPerQuery ==
    (call.op \in {"Search", "RangeSearch"} /\ pc \in {"join", "returned"})
        => Len(futs) = call.nq

C2_WritesOwnSlot ==
    call.op = "Search" =>
        \A t \in 1..Len(wrote) :
            /\ wrote[t] \subseteq SlotBase(call.k, t - 1)..(SlotBase(call.k, t - 1) + call.k - 1)
            /\ \A u \in 1..Len(wrote) : u # t => wrote[t] \cap wrote[u] = {}

C2_SlotHoldsAnswerOfItsQuery ==
    (call.op = "Search" /\ pc = "returned" /\ last.status = "success"
        /\ ids.st = "result" /\ dis.st = "result") =>
        \A t \in 1..call.nq :
            LET hits == BackendSearch(heap[index_], QueryRow(t - 1), call.k, call.bitset)
            IN  \A h \in 1..call.k :
                    /\ last.ids.mem[SlotBase(call.k, t - 1) + h - 1] = hits[h].id
                    /\ last.dis.mem[SlotBase(call.k, t - 1) + h - 1].v = hits[h].dis

\* C2: Search starts exactly one task per query row, task i writes only the
\* slot [i*k, (i+1)*k) of the output buffers, and what the slot holds after a
\* successful Search is the backend's answer to query row i whatever the order
\* in which the tasks ran.
C2_SlotsDeterministic ==
    /\ C2_OneTaskPerQuery
    /\ C2_WritesOwnSlot
    /\ C2_SlotHoldsAnswerOfItsQuery

\* ------------------------------------------------------------------- C3
\* C3: Search on a node without a backend instance returns EmptyIndex; it
\* dispatches nothing and never reaches through the missing instance.
C3_SearchOnEmptyReturnsEmptyIndex ==
    \A t \in Threads :
        (th[t].op = "Search" /\ gpu_index_[th[t].node] = NULL
            /\ th[t].pc \notin {"idle", "start"})
        => (th[t].pc = "done" /\ th[t].status = "empty_index" /\ ub = "none")

\* ------------------------------------------------------------------- C4
\* C4: while the flat node is Empty, RangeSearch and GetVectorByIds answer
\* EmptyIndex and do not touch the backend.
C4_EmptyNodeAnswersEmptyIndex ==
    (index_ = NULL /\ last.op \in {"RangeSearch", "GetVectorByIds"})
        => last.status = "empty_index"

\* ------------------------------------------------------------------- C5
\* C5: when either output buffer of Search could not be allocated, Search
\* returns the allocation error with no task pushed to the executor.
C5_NoTaskAfterFailedAllocation ==
    (call.op = "Search" /\ pc # "idle" /\ (ids.st = "null" \/ dis.st = "null"))
        => /\ futs = <<>>
           /\ pc = "returned" => last.status = "malloc_error"

\* ------------------------------------------------------------------- C6
\* the resources that are neither idle in the manager's queue nor in the hands
\* of a Train or a Deserialize that is between GetRes and the end of its scope
Lost ==
    {r \in 1..NumRes :
        /\ \A n \in 1..Len(res_bq_) : res_bq_[n] # r
        /\ \A t \in Threads :
              ~(th[t].gpu_res = r /\ th[t].pc \in {"train_scope", "train_backend",
                                                  "deser_scope", "deser_backend"})}

\* C6: Train, Add, Search and Deserialize of the GPU node take the device
\* lease at most once per call (exactly once when they succeed), and when the
\* call has returned, with success or with an error, the caller holds no
\* resource mutex and every resource it took is back in the manager's queue.
C6_LeaseReleasedOnEveryPath ==
    /\ \A t \in Threads :
          th[t].pc \in {"idle", "done"} =>
              /\ \A r \in 1..NumRes : mutex_[r] # t
              /\ th[t].op \in {"Train", "Add", "Search", "Deserialize"} =>
                    /\ th[t].acq <= 1
                    /\ th[t].status = "success" => th[t].acq = 1
    /\ Alive => Lost = {}

\* a Train whose backend threw has returned its error after taking the lease
C6_Witness ==
    \E t \in Threads :
        /\ th[t].op = "Train" /\ th[t].pc = "done"
        /\ th[t].status = "faiss_inner_error" /\ th[t].acq = 1
        /\ \A r \in 1..NumRes : mutex_[r] = 0
        /\ Len(res_bq_) = NumRes

\* ------------------------------------------------------------------- C7
LeaseOps == {"Train", "Add", "Search", "Deserialize"}

\* C7: at any moment at most one of the operations Train, Add, Search and
\* Deserialize is inside a backend call that uses a given device resource.
C7_HandleUsedByOneOperation ==
    \A r \in 1..NumRes : Cardinality({t \in using[r] : th[t].op \in LeaseOps}) <= 1

\* ------------------------------------------------------------------- C8
\* C8: a node owns at most one backend instance: once an operation that
\* replaces the instance has returned, the instance it replaced has been
\* released, so every allocated backend object is the one some node points to.
C8_ReplacedInstanceReleased ==
    (Alive /\ \A t \in Threads : ~Running(t))
        => \A a \in DOMAIN heap : \E n \in Nodes : gpu_index_[n] = a

\* ------------------------------------------------------------------- C9
\* C9: an Add or a Deserialize of the flat node that ends with an error leaves
\* the node as it was: the same backend instance with the same content.
C9_ErrorLeavesNodeUnchanged ==
    [][(pc = "idle" /\ last'.op \in {"Add", "Deserialize"}
            /\ last'.status \in {"invalid_metric_type", "malloc_error",
                                 "faiss_inner_error", "exception"})
        => UNCHANGED <<index_, heap>>]_vars

\* ------------------------------------------------------------------ C10
\* C10: Train on a GPU node whose instance is already trained returns
\* index_already_trained at once: no lease is taken and the instance, the
\* resource reference, the queue and the mutexes stay as they were.
C10_TrainedNodeRefusesTrain ==
    [][\A t \in Threads :
          (th[t].pc = "idle" /\ th'[t].pc # "idle" /\ th'[t].op = "Train"
              /\ gpu_index_[th'[t].node] # NULL
              /\ heap[gpu_index_[th'[t].node]].is_trained)
          => /\ th'[t].pc = "done"
             /\ th'[t].status = "index_already_trained"
             /\ th'[t].acq = 0
             /\ UNCHANGED <<heap, gpu_index_, res_, res_bq_, mutex_, using>>]_vars

\* Train has been refused on a trained node and the instance is still there
C10_Witness ==
    \E t \in Threads :
        /\ th[t].op = "Train" /\ th[t].pc = "done"
        /\ th[t].status = "index_already_trained" /\ th[t].acq = 0
        /\ gpu_index_[th[t].node] # NULL
        /\ heap[gpu_index_[th[t].node]].is_trained

\* ------------------------------------------------------------------ C11
\* the step by which thread t starts an Add on a node where no Train has
\* succeeded: no instance, or an instance that is not trained
AddStartsUntrained(t) ==
    /\ th[t].pc = "idle" /\ th'[t].pc # "idle" /\ th'[t].op = "Add"
    /\ \/ gpu_index_[th'[t].node] = NULL
       \/ ~heap[gpu_index_[th'[t].node]].is_trained

\* C11 as stated: Add on a GPU node on which Train has not succeeded, a
\* freshly constructed node included, fails with IndexNotTrained.
C11_AddBeforeTrainNotTrained ==
    [][\A t \in Threads :
          AddStartsUntrained(t)
              => (th'[t].pc = "done" /\ th'[t].status = "index_not_trained")]_vars

\* C11 amended: Add on a GPU node that holds an untrained instance fails with
\* IndexNotTrained, Add on a node that holds no instance (a fresh node) fails
\* with EmptyIndex; either way no lease is taken and nothing changes.
C11_AddBeforeTrainRejected ==
    [][\A t \in Threads :
          AddStartsUntrained(t)
              => /\ th'[t].pc = "done"
                 /\ th'[t].status = IF gpu_index_[th'[t].node] = NULL
                                    THEN "empty_index" ELSE "index_not_trained"
                 /\ th'[t].acq = 0
                 /\ UNCHANGED <<heap, gpu_index_, res_, res_bq_, mutex_, using>>]_vars

\* an Add has been refused on a node that holds an untrained instance
C11_Witness ==
    \E t \in Threads :
        /\ th[t].op = "Add" /\ th[t].pc = "done"
        /\ th[t].status = "index_not_trained" /\ th[t].acq = 0
        /\ gpu_index_[th[t].node] # NULL
        /\ ~heap[gpu_index_[th[t].node]].is_trained

\* ------------------------------------------------------------------ C12
\* a Search or RangeSearch in which a task failed has returned
FailedBatchReturned ==
    /\ pc = "returned"
    /\ call.op \in {"Search", "RangeSearch"}
    /\ \E t \in 1..Len(futs) : futs[t] = "failed"

\* what the caller holds after a failed batch: one error, no result set, and
\* the buffers of the batch released
OneErrorNoResult ==
    /\ last.op = call.op
    /\ last.status = "faiss_inner_error"
    /\ DOMAIN last = {"op", "status"}
    /\ call.op = "Search" => /\ ids.st \in {"freed", "null"}
                             /\ dis.st \in {"freed", "null"}
    /\ call.op = "RangeSearch" => /\ result_id_array = <<>>
                                  /\ result_dist_array = <<>>

\* C12: when one or more tasks of a Search or RangeSearch batch fail, the call
\* returns one typed error and no result set, and each output buffer of the
\* batch is released once: it is freed from the live state only, and a freed
\* buffer is neither freed again nor handed to the caller.
C12_AllOrNothing ==
    [][/\ FailedBatchReturned' => OneErrorNoResult'
       /\ (ids'.st = "freed" /\ ids.st # "freed") => ids.st = "live"
       /\ (dis'.st = "freed" /\ dis.st # "freed") => dis.st = "live"
       /\ ids.st = "freed" => ids'.st \in {"freed", "none"}
       /\ dis.st = "freed" => dis'.st \in {"freed", "none"}]_vars

\* a Search of two queries returned its error after one task had written its
\* slot and the other had failed
C12_Witness ==
    /\ pc = "returned" /\ call.op = "Search"
    /\ \E t \in 1..Len(futs) : futs[t] = "failed"
    /\ \E t \in 1..Len(futs) : futs[t] = "done"
    /\ last.status = "faiss_inner_error"
    /\ ids.st = "freed" /\ dis.st = "freed"
    /\ ids.mem # <<>>

\* ------------------------------------------------------------------ C13
\* the step in which RangeSearch runs GetRangeSearchResult
MergeStep ==
    /\ call.op = "RangeSearch" /\ pc = "join"
    /\ last'.op = "RangeSearch" /\ last'.status = "success"

\* C13: in RangeSearch the merge step starts only after every per-row task of
\* the batch has completed: at the merge each of the nq tasks is done, none is
\* queued or running, so no per-row list can still be written.
C13_MergeAfterAllTasks ==
    [][MergeStep => /\ Len(futs) = call.nq
                    /\ \A t \in 1..Len(futs) : futs[t] = "done"
                    /\ Queued = {}]_vars

\* a RangeSearch of two queries has merged the lists of its two tasks
C13_Witness ==
    /\ pc = "returned" /\ call.op = "RangeSearch" /\ call.nq = 2
    /\ last.status = "success"
    /\ Len(futs) = 2 /\ futs[1] = "done" /\ futs[2] = "done"
    /\ Len(last.ids) > 0

\* ------------------------------------------------------------------ C14
\* C14: the offsets array of a merged range result over N queries has length
\* N + 1, starts with 0, never decreases, grows at row i by the number of hits
\* that row kept (0 for a row with none), and ends with the number of ids
\* emitted; ids and distances have that same length.
C14_OffsetsInvariant ==
    [][MergeStep =>
          /\ last'.rows = call.nq
          /\ Len(last'.lims) = call.nq + 1
          /\ last'.lims[1] = 0
          /\ \A r \in 1..call.nq :
                /\ last'.lims[r] <= last'.lims[r + 1]
                /\ last'.lims[r + 1] - last'.lims[r] = Len(result_id_array[r])
                /\ SubSeq(last'.ids, last'.lims[r] + 1, last'.lims[r + 1]) = result_id_array[r]
          /\ last'.lims[call.nq + 1] = Len(last'.ids)
          /\ Len(last'.distances) = Len(last'.ids)]_vars

\* a merged result of two rows in which the first row has hits and the second
\* has none
C14_Witness ==
    /\ pc = "returned" /\ call.op = "RangeSearch" /\ last.status = "success"
    /\ last.rows = 2
    /\ last.lims[1] = 0 /\ last.lims[2] > 0 /\ last.lims[3] = last.lims[2]

\* ------------------------------------------------------------------ C15
\* the band a distance must lie in for the call parameters radius, range_filter
InBand(d, metric, radius, range_filter, ip) ==
    /\ InRadius(metric, d, radius)
    /\ range_filter # defaultRangeFilter => distance_in_range(d, radius, range_filter, ip)

C16_SearchUsesOwnProbeCount ==
    \A t \in Threads :
        (th[t].op = "Search" /\ th[t].pc = "done" /\ th[t].status = "success")
            => th[t].arg.used \subseteq {th[t].arg.nprobe}

\* ------------------------------------------------------------------ C17
\* thread t starts a Serialize in this step / moves inside one
SerializeStarts(t) == th[t].pc = "idle" /\ th'[t].pc # "idle" /\ th'[t].op = "Serialize"
SerializeMoves(t) == th'[t].op = "Serialize" /\ th'[t] # th[t]

\* C17 (GPU node): Serialize on a node without an instance returns EmptyIndex
\* and on a node whose instance is not trained IndexNotTrained, in both cases
\* with nothing appended to the container; a Serialize that succeeds appends
\* the one blob IVF, the image of the instance, and keeps what the container
\* held; no step of Serialize changes the instance or the resource reference.
C17_SerializeNeedsTrained ==
    [][\A t \in Threads :
          /\ SerializeStarts(t) =>
                LET n == th'[t].node
                IN  /\ gpu_index_[n] = NULL =>
                          /\ th'[t].pc = "done" /\ th'[t].status = "empty_index"
                          /\ th'[t].arg \in EmptyBinSets
                    /\ (gpu_index_[n] # NULL /\ ~heap[gpu_index_[n]].is_trained) =>
                          /\ th'[t].pc = "done" /\ th'[t].status = "index_not_trained"
                          /\ th'[t].arg \in EmptyBinSets
                    /\ (gpu_index_[n] # NULL /\ heap[gpu_index_[n]].is_trained) =>
                          /\ th'[t].pc = "ser_backend"
                          /\ th'[t].arg \in EmptyBinSets
          /\ (SerializeMoves(t) /\ th'[t].status = "success") =>
                /\ th[t].pc = "ser_backend"
                /\ DOMAIN th'[t].arg = (DOMAIN th[t].arg) \cup {"IVF"}
                /\ \A name \in DOMAIN th[t].arg : th'[t].arg[name] = th[t].arg[name]
                /\ th'[t].arg["IVF"] = GpuWriteIndex(heap[gpu_index_[th[t].node]])
          /\ SerializeMoves(t) => UNCHANGED <<heap, gpu_index_, res_, res_bq_, mutex_>>]_vars

\* Serialize was refused on a node that holds an untrained instance
C17_Witness ==
    \E t \in Threads :
        /\ th[t].op = "Serialize" /\ th[t].pc = "done"
        /\ th[t].status = "index_not_trained"
        /\ gpu_index_[th[t].node] # NULL
        /\ "IVF" \notin DOMAIN th[t].arg

\* C17 (flat node): Serialize on an Empty node returns EmptyIndex with the
\* container untouched; on a Built node it appends the one blob named for the
\* variant, the image of the instance.
C17_FlatSerialize ==
    last.op = "Serialize" =>
        IF index_ = NULL
        THEN /\ last.status = "empty_index"
             /\ last.binset \in EmptyBinSets
        ELSE /\ last.status = "success"
             /\ (DOMAIN last.binset) \ {"other"} = {BlobName}
             /\ last.binset[BlobName] = WriteIndex(heap[index_])
             /\ "other" \in DOMAIN last.binset => last.binset["other"] = <<"junk">>

\* ------------------------------------------------------------------ C18
\* the step that hands Deserialize the container the Serialize just before it
\* filled; Deserialize discards whatever the node held before it reads, so the
\* node it fills is as good as a fresh one
RoundTripStep ==
    /\ pc = "idle"
    /\ last.op = "Serialize" /\ last.status = "success"
    /\ last'.op = "Deserialize" /\ last'.binset = last.binset

C18_GpuImageReadable ==
    \A n \in Nodes :
        (gpu_index_[n] # NULL /\ heap[gpu_index_[n]].is_trained) =>
            LET blob == GpuWriteIndex(heap[gpu_index_[n]])
            IN  /\ GpuReadable(blob)
                /\ blob[2] = heap[gpu_index_[n]].is_trained
                /\ SubSeq(blob, 4, Len(blob)) = heap[gpu_index_[n]].xb

\* ------------------------------------------------------------------ C19
\* the threads that hold a lease: past GetRes and not yet out of the scope that
\* gives the resource back
Holders ==
    {t \in Threads : th[t].pc \in {"train_scope", "train_backend",
                                   "deser_scope", "deser_backend"}}

\* the threads inside GetRes
Waiting == {t \in Threads : th[t].pc \in {"train_getres", "deser_getres"}}

\* the books of the pool: every resource is either idle in the queue or out
\* with exactly one holder
PoolBooks ==
    /\ Cardinality(Holders) <= NumRes
    /\ Cardinality(Holders) + Len(res_bq_) = NumRes
    /\ \A t \in Holders : \A n \in 1..Len(res_bq_) : res_bq_[n] # th[t].gpu_res
    /\ \A t \in Holders, u \in Holders : t # u => th[t].gpu_res # th[u].gpu_res
    /\ Holders = {} => CanGetRes
    /\ (Waiting # {} /\ ~CanGetRes) => Cardinality(Holders) = NumRes

\* C19: with a pool of K resources at most K leases are out at any time; a
\* caller that acquires while no lease is out finds a resource at once, and a
\* caller inside GetRes is held up only while all K are out: it gets its lease
\* in a step that starts with fewer than K out, that is after a release.
C19_LeasePoolRoundTrip ==
    [][/\ Alive' => PoolBooks'
       /\ \A t \in Threads :
             (t \in Waiting /\ t \in Holders') =>
                 /\ Cardinality(Holders) < NumRes
                 /\ \A u \in Holders : th[u].gpu_res # th'[t].gpu_res]_vars

\* every resource is out and a further caller is inside GetRes
C19_Witness ==
    /\ Cardinality(Holders) = NumRes
    /\ Len(res_bq_) = 0
    /\ Waiting # {}

\* ------------------------------------------------------------------ C20
\* a Search has returned a result set
SearchSucceeded ==
    pc = "returned" /\ call.op = "Search" /\ last.status = "success"

\* the result set has nq rows of k cells, all written, and every id is -1 or
\* the label of a stored row that the bitset does not exclude
WellFormedResult ==
    /\ last.rows = call.nq
    /\ last.dim = call.k
    /\ DOMAIN last.ids.mem = 0..(call.nq * call.k - 1)
    /\ DOMAIN last.dis.mem = 0..(call.nq * call.k - 1)
    /\ \A o \in DOMAIN last.ids.mem :
          last.ids.mem[o] \in {-1} \cup ((0..(Count - 1)) \ call.bitset)

\* C20: Search on a node that was never built returns EmptyIndex and starts
\* nothing; on a Built node holding N rows a Search of nq queries for k
\* neighbours that succeeds returns nq rows of k (id, distance) pairs, each id
\* being -1 or one of the N row ids not set in the bitset.
C20_SearchScenario ==
    [][/\ (pc = "idle" /\ index_ = NULL /\ last'.op = "Search")
             => (last'.status = "empty_index" /\ UNCHANGED <<pc, futs, ids, dis, index_, heap>>)
       /\ SearchSucceeded' => WellFormedResult']_vars

\* two queries for two neighbours on a node where the bitset leaves fewer than
\* two rows: real ids and the sentinel side by side
C20_Witness ==
    /\ SearchSucceeded
    /\ call.nq = 2 /\ call.k = 2 /\ call.bitset # {}
    /\ \E o \in DOMAIN last.ids.mem : last.ids.mem[o] = -1
    /\ \E o \in DOMAIN last.ids.mem : last.ids.mem[o] >= 0

\* ------------------------------------------------------------------ C21
\* the statuses Train returns when it fails
TrainErrors == {"index_already_trained", "invalid_metric_type", "faiss_inner_error"}

\* the places of a Build that are inside its call of Train / of Add
InTrain == {"train_getres", "train_scope", "train_backend", "train_catch"}
InAdd == {"add_start", "add_scope", "add_backend"}

\* the rows held by the index node n owns (none when it owns no index)
RowsOf(h, a) == IF a = NULL THEN <<>> ELSE h[a].xb

\* Build returns straight out of its call of Train
BuildLeavesTrain(t) ==
    /\ th'[t].op = "Build" /\ th'[t].pc = "done"
    /\ th[t].pc \in InTrain \cup {"idle"}

\* Build goes on from Train to Add
BuildEntersAdd(t) ==
    th'[t].op = "Build" /\ th'[t].pc = "add_start" /\ th[t].pc # "add_start"

\* Build returns out of its call of Add
BuildLeavesAdd(t) ==
    th'[t].op = "Build" /\ th'[t].pc = "done" /\ th[t].pc \in InAdd

\* C21: Build is Train followed by Add.  A Build whose Train fails returns
\* Train's error without having entered Add, the rows of the node untouched;
\* Add is entered only once Train has succeeded (the node owns a trained
\* index); otherwise what Build returns is what Add returned: success with
\* the rows of the dataset added, or the error of the add that threw.
C21_BuildIsTrainThenAdd ==
    [][\A t \in Threads :
          /\ BuildLeavesTrain(t) =>
                /\ th'[t].status \in TrainErrors
                /\ RowsOf(heap', gpu_index_'[th'[t].node]) = RowsOf(heap, gpu_index_[th'[t].node])
          /\ BuildEntersAdd(t) =>
                /\ th[t].pc = "train_backend"
                /\ gpu_index_'[th'[t].node] # NULL
                /\ heap'[gpu_index_'[th'[t].node]].is_trained
                /\ RowsOf(heap', gpu_index_'[th'[t].node]) = <<>>
          /\ BuildLeavesAdd(t) =>
                /\ th[t].pc = "add_backend"
                /\ th'[t].status \in {"success", "faiss_inner_error"}
                /\ th'[t].status = "success" =>
                      RowsOf(heap', gpu_index_'[th'[t].node]) = th[t].arg.tensor]_vars

\* a Build on a node that is already trained has returned Train's refusal, and
\* the rows an earlier Add put there are still the only ones
C21_Witness ==
    \E t \in Threads :
        /\ th[t].op = "Build" /\ th[t].pc = "done"
        /\ th[t].status = "index_already_trained"
        /\ RowsOf(heap, gpu_index_[th[t].node]) # <<>>

\* a Build has returned the success of its Add
C21_WitnessAdded ==
    \E t \in Threads :
        /\ th[t].op = "Build" /\ th[t].pc = "done" /\ th[t].status = "success"
        /\ RowsOf(heap, gpu_index_[th[t].node]) = th[t].arg.tensor

\* the flat node: Train always succeeds, so a Build is the body of Add under
\* the name Build; one that returned success left the node owning an index
\* that holds exactly the rows of its dataset
C21_FlatBuild ==
    [][(pc = "idle" /\ last'.op = "Build" /\ last' # last /\ last'.status = "success")
          => /\ Train = "success"
             /\ index_' # NULL /\ index_' # index_
             /\ heap'[index_'].ntotal * CodeSize(T, heap'[index_'].d) = Len(heap'[index_'].xb)
             /\ heap'[index_'].ntotal > 0]_vars

\* ------------------------------------------------------------------ C22
\* the blocks a Search has handed to the backend so far, in order
BlocksOf(t) == th[t].arg.out

InSearch(t) ==
    th[t].op = "Search" /\ th[t].pc \in {"search_loop", "search_backend", "done"}

\* block b starts where block b - 1 ended, on a multiple of block_size, holds
\* between 1 and block_size rows inside [0, rows), and writes the entries of
\* exactly those rows
BlocksConsecutive(t) ==
    LET o == BlocksOf(t)
        x == th[t].arg
    IN  \A b \in 1..Len(o) :
           /\ o[b].row = (IF b = 1 THEN 0 ELSE o[b - 1].row + o[b - 1].size)
           /\ o[b].row = (b - 1) * block_size
           /\ o[b].size \in 1..block_size
           /\ o[b].row + o[b].size <= x.rows
           /\ o[b].lo = o[b].row * x.k
           /\ o[b].hi = (o[b].row + o[b].size) * x.k

BlocksDisjoint(t) ==
    LET o == BlocksOf(t)
    IN  \A a, b \in 1..Len(o) : a < b => o[a].hi <= o[b].lo

\* the blocks reach the last row: with BlocksConsecutive, every row of
\* [0, rows) is in exactly one block and all rows * k entries are written
BlocksCover(t) ==
    LET o == BlocksOf(t)
        x == th[t].arg
    IN  IF x.rows = 0 THEN o = <<>>
        ELSE /\ o # <<>>
             /\ o[Len(o)].row + o[Len(o)].size = x.rows
             /\ o[Len(o)].hi = x.rows * x.k

\* C22: GPU Search hands the query rows to the backend in consecutive blocks
\* of at most block_size rows; the block that starts at row i writes only
\* the entries [i*k, (i+size)*k); no two blocks overlap; and when Search
\* returns success the blocks partition [0, rows), so all rows*k entries
\* have been written.
C22_BlocksPartitionRows ==
    \A t \in Threads :
        InSearch(t) =>
            /\ BlocksConsecutive(t)
            /\ BlocksDisjoint(t)
            /\ (th[t].pc = "done" /\ th[t].status = "success") => BlocksCover(t)

\* a Search of block_size + 1 rows has returned: one full block and one of a
\* single row
C22_Witness ==
    \E t \in Threads :
        /\ th[t].op = "Search" /\ th[t].pc = "done" /\ th[t].status = "success"
        /\ th[t].arg.rows = block_size + 1
        /\ Len(BlocksOf(t)) = 2
        /\ BlocksOf(t)[2].size = 1

\* ------------------------------------------------------------------ C23
\* the flat node finishes an Add, or the Add of a Build
FlatAddStep ==
    /\ pc = "idle" /\ pc' = "idle"
    /\ last'.op \in {"Add", "Build"}
    /\ last' # last \/ index_' # index_ \/ heap' # heap

\* the instances alive in the free store
Live(h) == DOMAIN h

\* C23: a successful Add (or Build) of the flat node replaces the backend
\* instance: afterwards the node owns a new instance that holds exactly the
\* rows of the dataset just added, so Count is that dataset's row count and
\* not a sum; the instance owned before is deleted; and the new instance is
\* the only one alive.
C23_AddReplacesInstance ==
    [][(FlatAddStep /\ last'.status = "success") =>
          /\ index_' # NULL /\ index_' # index_
          /\ \E ds \in DataSets(T) :
                /\ Count' = ds.rows
                /\ heap'[index_'].xb = ds.tensor
                /\ heap'[index_'].d = ds.dim
          /\ index_ # NULL => (index_ \in Live(heap) /\ index_ \notin Live(heap'))
          /\ Live(heap') = {index_'}]_vars

\* the node owns at most the one instance index_ points to
C23_OwnsOneInstance ==
    Live(heap) = IF index_ = NULL THEN {} ELSE {index_}

\* an Add of two rows has succeeded on a node that owned an instance before:
\* the new instance took the second address, and the first one is free again
C23_Witness ==
    /\ pc = "idle"
    /\ last.op = "Add" /\ last.status = "success"
    /\ index_ = 2 /\ Live(heap) = {2}
    /\ Count = 2

\* ------------------------------------------------------------------ C24
NotImplementedOps == {"RangeSearch", "GetVectorByIds", "GetIndexMeta"}

\* thread t calls one of the three operations
NotImplementedCalled(t) ==
    th[t].pc = "idle" /\ th'[t].pc # "idle" /\ th'[t].op \in NotImplementedOps

\* the state of node n as the caller sees it
GpuNodeState(n) ==
    IF gpu_index_[n] = NULL THEN "Empty"
    ELSE IF ~heap[gpu_index_[n]].is_trained THEN "Untrained"
    ELSE IF heap[gpu_index_[n]].xb = <<>> THEN "Trained"
    ELSE "Built"

\* C24: on a GPU node RangeSearch, GetVectorByIds and GetIndexMeta return
\* not_implemented at once, whatever state the node is in; they take no
\* resource from the pool and enter no resource scope, and the node, its
\* index and the pool are left as they were.
C24_NotImplementedEverywhere ==
    [][\A t \in Threads :
          NotImplementedCalled(t) =>
             /\ th'[t].pc = "done"
             /\ th'[t].status = "not_implemented"
             /\ th'[t].acq = 0 /\ th'[t].gpu_res = NULL
             /\ UNCHANGED <<heap, gpu_index_, res_, res_bq_, mutex_, using, ub>>]_vars

\* the three operations can be called, and answer, in every state of the node
C24_CallableInEveryState ==
    (Alive /\ th[1].pc = "idle") =>
        \A op \in NotImplementedOps : ENABLED GpuNotImplemented(1, 1, op)

\* RangeSearch has returned not_implemented on a Built node
C24_Witness ==
    \E t \in Threads :
        /\ th[t].op = "RangeSearch" /\ th[t].pc = "done"
        /\ th[t].status = "not_implemented"
        /\ GpuNodeState(th[t].node) = "Built"

\* ... and GetVectorByIds on an Empty node, GetIndexMeta on a Trained one
C24_WitnessEmpty ==
    \E t \in Threads :
        /\ th[t].op = "GetVectorByIds" /\ th[t].pc = "done"
        /\ th[t].status = "not_implemented"
        /\ GpuNodeState(th[t].node) = "Empty"

C24_WitnessTrained ==
    \E t \in Threads :
        /\ th[t].op = "GetIndexMeta" /\ th[t].pc = "done"
        /\ th[t].status = "not_implemented"
        /\ GpuNodeState(th[t].node) = "Trained"

=============================================================================
